---- MODULE Spec2Model ----
(***************************************************************************)
(* Infinite Realms: the turn-resolution engine of App (handleStartGame,    *)
(* handleChoice, handleUnlockSkill, handleOpenCodex, the game-over         *)
(* controls) together with the response cache of generateAdventureNode.    *)
(*                                                                         *)
(* The Narrative Generator is the environment: every call that reaches it  *)
(* either fails or answers with one payload of a finite payload set.  An   *)
(* asynchronous handler is two steps: the part that runs up to the await   *)
(* (it captures the gameState and history of the render it was created     *)
(* in), and the part that runs when the promise settles.                   *)
(***************************************************************************)
EXTENDS Integers, Sequences, FiniteSets, TLC

VARIABLES
    isPlaying,      \* useState(false)
    loading,        \* useState(false)
    gameState,      \* useState<GameState | null>(null)
    history,        \* useState<AdventureNode[]>([])
    error,          \* useState<string | null>(null), by message class
    showSettings,   \* useState(false)
    activeEvent,    \* useState<WorldEvent | null>(null)
    startParams,    \* useState<{genre, prompt, persona} | null>(null)
    responseCache,  \* module-level Map of geminiService, in insertion order
    inFlight,       \* the handler invocations suspended at their await
    generatorCalls  \* requests the Narrative Generator has received so far

vars == <<isPlaying, loading, gameState, history, error, showSettings,
          activeEvent, startParams, responseCache, inFlight, generatorCalls>>

-----------------------------------------------------------------------------
(* Bounds of the model.                                                    *)

\* Requests the Narrative Generator receives in one behaviour.
MaxCalls == 4

\* Handler invocations suspended at the same time.
MaxInFlight == 2

-----------------------------------------------------------------------------
(* JavaScript values that may be undefined or null, as parsed from JSON.   *)

Undefined == [tag |-> "undefined"]
Null == [tag |-> "null"]
Num(n) == [tag |-> "number", v |-> n]
Str(s) == [tag |-> "string", v |-> s]
Bool(b) == [tag |-> "boolean", v |-> b]
Arr(s) == [tag |-> "array", v |-> s]
Obj(r) == [tag |-> "object", v |-> r]

\* ToBoolean: what `if (x)`, `!x`, `x || d` and `x && y` test.
Truthy(x) ==
    CASE x.tag = "undefined" -> FALSE
      [] x.tag = "null" -> FALSE
      [] x.tag = "boolean" -> x.v
      [] x.tag = "number" -> x.v # 0
      [] x.tag = "string" -> x.v # ""
      [] OTHER -> TRUE

\* x || d
OrElse(x, d) == IF Truthy(x) THEN x ELSE d

\* x?.f : undefined when x is undefined or null
OptField(x, f) == IF x.tag \in {"undefined", "null"} THEN Undefined ELSE x.v[f]

Min(a, b) == IF a < b THEN a ELSE b
Max(a, b) == IF a > b THEN a ELSE b

\* arr.findIndex(p), given the sequence of p's values over arr: the first
\* place that holds, 0 for the -1 of no match.
findIndex(hits) ==
    IF \E i \in 1..Len(hits) : hits[i]
    THEN CHOOSE i \in 1..Len(hits) : hits[i] /\ \A j \in 1..(i - 1) : ~hits[j]
    ELSE 0

-----------------------------------------------------------------------------
(* types: SKILL_TREE, and calculateRelationshipStatus of App.              *)

SKILL_TREE == <<
    [id |-> "power_strike",  stat |-> "strength",     minVal |-> 3, cost |-> 1],
    [id |-> "iron_skin",     stat |-> "strength",     minVal |-> 5, cost |-> 1],
    [id |-> "titan_grip",    stat |-> "strength",     minVal |-> 7, cost |-> 1],
    [id |-> "shadow_step",   stat |-> "agility",      minVal |-> 3, cost |-> 1],
    [id |-> "precision",     stat |-> "agility",      minVal |-> 5, cost |-> 1],
    [id |-> "reflexes",      stat |-> "agility",      minVal |-> 7, cost |-> 1],
    [id |-> "analyze",       stat |-> "intelligence", minVal |-> 3, cost |-> 1],
    [id |-> "arcane_mind",   stat |-> "intelligence", minVal |-> 5, cost |-> 1],
    [id |-> "mastermind",    stat |-> "intelligence", minVal |-> 7, cost |-> 1],
    [id |-> "silver_tongue", stat |-> "charisma",     minVal |-> 3, cost |-> 1],
    [id |-> "inspiration",   stat |-> "charisma",     minVal |-> 5, cost |-> 1],
    [id |-> "dominate",      stat |-> "charisma",     minVal |-> 7, cost |-> 1] >>

\* The thresholds read as upper ends that belong to the lower status.
calculateRelationshipStatus_inclusive(affinity) ==
    IF affinity <= 10 THEN "Enemy"
    ELSE IF affinity <= 25 THEN "Stranger"
    ELSE IF affinity <= 45 THEN "Acquaintance"
    ELSE IF affinity <= 65 THEN "Friend"
    ELSE IF affinity <= 85 THEN "Confidant"
    ELSE "Close Friend"

calculateRelationshipStatus(affinity) ==
    IF affinity < 10 THEN "Enemy"
    ELSE IF affinity < 25 THEN "Stranger"
    ELSE IF affinity < 45 THEN "Acquaintance"
    ELSE IF affinity < 65 THEN "Friend"
    ELSE IF affinity < 85 THEN "Confidant"
    ELSE "Close Friend"

\* The special statuses without Confidant.
stickyStatuses_withoutConfidant ==
    {"Rival", "Crush", "Partner", "Nemesis", "Complicated", "Mentor",
     "Protege", "Ally"}

stickyStatuses ==
    {"Rival", "Crush", "Partner", "Nemesis", "Complicated", "Mentor",
     "Protege", "Ally", "Confidant"}

DefaultPersona ==
    [name |-> "Traveler", gender |-> "Unknown", appearance |-> "Unknown",
     backstory |-> "Unknown", personality |-> "Neutral"]

-----------------------------------------------------------------------------
(* geminiService: what the service does to the parsed response.            *)

\* Number(s) of the strings the payloads use; a string outside the table is
\* not numeric (NaN).
NumericStrings ==
    [s \in {"5", "0", "12", "-3", " "} |->
        CASE s = "5" -> 5 [] s = "0" -> 0 [] s = "12" -> 12
          [] s = "-3" -> 0 - 3 [] OTHER -> 0]

\* !isNaN(Number(val))
IsNumeric(val) ==
    CASE val.tag = "number" -> TRUE
      [] val.tag = "string" -> val.v = "" \/ val.v \in DOMAIN NumericStrings
      [] val.tag = "boolean" -> TRUE
      [] val.tag = "null" -> TRUE
      [] OTHER -> FALSE

\* Number(val), for a val that IsNumeric
ToNumber(val) ==
    CASE val.tag = "number" -> val.v
      [] val.tag = "string" -> IF val.v = "" THEN 0 ELSE NumericStrings[val.v]
      [] val.tag = "boolean" -> IF val.v THEN 1 ELSE 0
      [] OTHER -> 0

parseVal(val) ==
    IF val = Str("true") THEN Bool(TRUE)
    ELSE IF val = Str("false") THEN Bool(FALSE)
    ELSE IF /\ IsNumeric(val)
            /\ val.tag # "boolean"
            /\ val # Str("")
            /\ val # Null
         THEN Num(ToNumber(val))
    ELSE val

\* The record the loop over updatesData builds: a later item of the array
\* with the same id overwrites an earlier one.
RECURSIVE parseWorldUpdatesArray(_, _)
parseWorldUpdatesArray(items, updates) ==
    IF items = <<>> THEN updates
    ELSE LET item == Head(items)
             next == IF Truthy(item.id) /\ item.value # Undefined
                     THEN [k \in DOMAIN updates \cup {item.id.v} |->
                              IF k = item.id.v THEN parseVal(item.value)
                              ELSE updates[k]]
                     ELSE updates
         IN  parseWorldUpdatesArray(Tail(items), next)

parseWorldUpdates(updatesData) ==
    IF updatesData.tag = "array" THEN parseWorldUpdatesArray(updatesData.v, <<>>)
    ELSE IF updatesData.tag = "object"
         THEN [k \in DOMAIN updatesData.v |-> parseVal(updatesData.v[k])]
    ELSE <<>>

\* A merge that replaces: the result holds the second record only.
Spread_replaces(a, b) == b

\* { ...a, ...b } of two records
Spread(a, b) ==
    [k \in DOMAIN a \cup DOMAIN b |-> IF k \in DOMAIN b THEN b[k] ELSE a[k]]

\* The node generateAdventureNode builds from the parsed data.
resultNode(data) ==
    [data EXCEPT !.worldUpdates = Obj(parseWorldUpdates(data.worldUpdates)),
                 !.events = OrElse(data.events, Arr(<<>>))]

\* The node startGame builds from the parsed data.
startNode(data) ==
    [data EXCEPT !.worldUpdates = Obj(parseWorldUpdates(data.worldUpdates)),
                 !.isCombat = Bool(FALSE),
                 !.enemyName = Null,
                 !.enemyHealth = Null,
                 !.enemyMaxHealth = Null,
                 !.enemyAbilities = Null,
                 !.xpAward = Num(0),
                 !.newCodexEntries = OrElse(data.newCodexEntries, Arr(<<>>)),
                 !.relationshipUpdates = OrElse(data.relationshipUpdates, Arr(<<>>)),
                 !.events = Arr(<<>>)]

-----------------------------------------------------------------------------
(* App.handleStartGame: the GameState built from the opening node.         *)

\* (x || d) for a number x that may be undefined
NumOr(x, d) == IF Truthy(x) THEN x.v ELSE d

\* statsUpdate?.<stat>
StatDelta(node, stat) == OptField(node.statsUpdate, stat)

initialStats(initialNode) ==
    [strength     |-> NumOr(StatDelta(initialNode, "strength"), 5),
     agility      |-> NumOr(StatDelta(initialNode, "agility"), 5),
     intelligence |-> NumOr(StatDelta(initialNode, "intelligence"), 5),
     charisma     |-> NumOr(StatDelta(initialNode, "charisma"), 5)]

\* One entry of the payload as a CodexEntry of the state.
CodexEntryOf(entry, turn) ==
    [id |-> entry.id, title |-> entry.title, category |-> entry.category,
     content |-> entry.content, turnUnlocked |-> turn, isNew |-> TRUE]

initialCodex(initialNode) ==
    LET entries == OrElse(initialNode.newCodexEntries, Arr(<<>>)).v
    IN  [i \in 1..Len(entries) |-> CodexEntryOf(entries[i], 1)]

initialRelationships(initialNode) ==
    IF Truthy(initialNode.relationshipUpdates)
    THEN LET us == initialNode.relationshipUpdates.v
         IN  [i \in 1..Len(us) |->
                [id          |-> us[i].npcId,
                 name        |-> us[i].npcName,
                 description |-> OrElse(us[i].npcDescription, Str("Unknown")).v,
                 affinity    |-> 50 + us[i].affinityChange,
                 status      |-> IF Truthy(us[i].newStatus)
                                 THEN us[i].newStatus.v
                                 ELSE calculateRelationshipStatus(50 + us[i].affinityChange)]]
    ELSE <<>>

\* newState of handleStartGame
newState(initialNode, genre, persona) ==
    [inventory      |-> initialNode.inventory,
     quest          |-> initialNode.currentQuest,
     location       |-> initialNode.locationName,
     genre          |-> genre,
     health         |-> NumOr(StatDelta(initialNode, "health"), 100),
     maxHealth      |-> 100,
     turnCount      |-> 1,
     stats          |-> initialStats(initialNode),
     worldState     |-> OrElse(initialNode.worldUpdates, Obj(<<>>)).v,
     inCombat       |-> FALSE,
     enemyName      |-> Null,
     enemyHealth    |-> Null,
     enemyMaxHealth |-> Null,
     enemyAbilities |-> Null,
     xp             |-> 0,
     level          |-> 1,
     skillPoints    |-> 0,
     unlockedSkills |-> <<>>,
     codex          |-> initialCodex(initialNode),
     relationships  |-> initialRelationships(initialNode),
     persona        |-> IF persona = Undefined THEN DefaultPersona ELSE persona]

-----------------------------------------------------------------------------
(* App.handleChoice, "3. Logic Processing": steps A to I on the gameState   *)
(* the handler captured and the node the service returned.                 *)

\* Step A
newStats(gs, newNode) ==
    [strength     |-> gs.stats.strength + NumOr(StatDelta(newNode, "strength"), 0),
     agility      |-> gs.stats.agility + NumOr(StatDelta(newNode, "agility"), 0),
     intelligence |-> gs.stats.intelligence + NumOr(StatDelta(newNode, "intelligence"), 0),
     charisma     |-> gs.stats.charisma + NumOr(StatDelta(newNode, "charisma"), 0)]

\* Step B whose no-combat branch only lowers the flag and keeps the enemy's
\* fields as they were.
nextCombat_keepsEnemy(gs, newNode) ==
    IF Truthy(newNode.isCombat)
    THEN [inCombat       |-> TRUE,
          enemyName      |-> OrElse(newNode.enemyName, Str("Unknown Enemy")),
          enemyMaxHealth |-> OrElse(newNode.enemyMaxHealth, Num(100)),
          enemyHealth    |-> OrElse(newNode.enemyHealth, Num(100)),
          enemyAbilities |-> OrElse(newNode.enemyAbilities, Arr(<<>>))]
    ELSE [inCombat       |-> FALSE,
          enemyName      |-> gs.enemyName,
          enemyMaxHealth |-> gs.enemyMaxHealth,
          enemyHealth    |-> gs.enemyHealth,
          enemyAbilities |-> gs.enemyAbilities]

\* Step B: the five encounter fields after the turn.
nextCombat(gs, newNode) ==
    IF Truthy(newNode.isCombat)
    THEN IF \/ ~gs.inCombat
            \/ (Truthy(newNode.enemyName) /\ newNode.enemyName # gs.enemyName)
         THEN LET nextEnemyMaxHealth == OrElse(newNode.enemyMaxHealth, Num(100))
              IN  [inCombat       |-> TRUE,
                   enemyName      |-> OrElse(newNode.enemyName, Str("Unknown Enemy")),
                   enemyMaxHealth |-> nextEnemyMaxHealth,
                   enemyHealth    |-> IF newNode.enemyHealth # Undefined
                                      THEN newNode.enemyHealth
                                      ELSE nextEnemyMaxHealth,
                   enemyAbilities |-> OrElse(newNode.enemyAbilities, Arr(<<>>))]
         ELSE [inCombat       |-> gs.inCombat,
               enemyName      |-> gs.enemyName,
               enemyMaxHealth |-> gs.enemyMaxHealth,
               enemyHealth    |-> IF newNode.enemyHealth # Undefined
                                  THEN newNode.enemyHealth
                                  ELSE gs.enemyHealth,
               enemyAbilities |-> IF /\ Truthy(newNode.enemyAbilities)
                                     /\ Len(newNode.enemyAbilities.v) > 0
                                  THEN newNode.enemyAbilities
                                  ELSE gs.enemyAbilities]
    ELSE [inCombat       |-> FALSE,
          enemyName      |-> Null,
          enemyMaxHealth |-> Null,
          enemyHealth    |-> Null,
          enemyAbilities |-> Null]

\* Step C
healthChange(newNode) == NumOr(StatDelta(newNode, "health"), 0)

clampedHealth(gs, newNode) ==
    LET newHealth == gs.health + healthChange(newNode)
        capped == IF newHealth > gs.maxHealth THEN gs.maxHealth ELSE newHealth
    IN  IF capped < 0 THEN 0 ELSE capped

\* Step D with the threshold test written `currentXP > xpThreshold`: an
\* award that lands exactly on the threshold does not level up.
leveling_strict(gs, newNode, newHealth) ==
    LET xpAward == IF newNode.xpAward \in {Undefined, Null} THEN 0 ELSE newNode.xpAward.v
        currentXP == gs.xp + xpAward
        xpThreshold == gs.level * 100
    IN  IF currentXP > xpThreshold
        THEN [xp |-> currentXP - xpThreshold,
              level |-> gs.level + 1,
              skillPoints |-> gs.skillPoints + 1,
              maxHealth |-> gs.maxHealth + 10,
              health |-> newHealth + 10,
              leveledUp |-> TRUE]
        ELSE [xp |-> currentXP,
              level |-> gs.level,
              skillPoints |-> gs.skillPoints,
              maxHealth |-> gs.maxHealth,
              health |-> newHealth,
              leveledUp |-> FALSE]

\* Step D: xp, level, skill points, and health and maxHealth after the
\* level-up bonus; newHealth is Step C's result.
leveling(gs, newNode, newHealth) ==
    LET xpAward == NumOr(newNode.xpAward, 0)
        currentXP == gs.xp + xpAward
        currentLevel == IF gs.level = 0 THEN 1 ELSE gs.level
        xpThreshold == currentLevel * 100
    IN  IF currentXP >= xpThreshold
        THEN [xp |-> currentXP - xpThreshold,
              level |-> currentLevel + 1,
              skillPoints |-> gs.skillPoints + 1,
              maxHealth |-> gs.maxHealth + 10,
              health |-> newHealth + 10,
              leveledUp |-> TRUE]
        ELSE [xp |-> currentXP,
              level |-> currentLevel,
              skillPoints |-> gs.skillPoints,
              maxHealth |-> gs.maxHealth,
              health |-> newHealth,
              leveledUp |-> FALSE]

\* Step E comparing ids only: an entry under a new id is admitted even when
\* its title is the title of an entry the codex holds.
RECURSIVE validNewEntries_byIdOnly(_, _, _)
validNewEntries_byIdOnly(currentCodex, newEntries, turn) ==
    IF newEntries = <<>> THEN <<>>
    ELSE LET entry == Head(newEntries)
             exists == \E i \in 1..Len(currentCodex) : currentCodex[i].id = entry.id
             rest == validNewEntries_byIdOnly(currentCodex, Tail(newEntries), turn)
         IN  IF exists THEN rest ELSE <<CodexEntryOf(entry, turn)>> \o rest

\* Step E: the entries of the payload that neither id nor title of the
\* codex as it was before the turn matches.
RECURSIVE validNewEntries(_, _, _)
validNewEntries(currentCodex, newEntries, turn) ==
    IF newEntries = <<>> THEN <<>>
    ELSE LET entry == Head(newEntries)
             exists == \E i \in 1..Len(currentCodex) :
                          \/ currentCodex[i].id = entry.id
                          \/ currentCodex[i].title = entry.title
             rest == validNewEntries(currentCodex, Tail(newEntries), turn)
         IN  IF exists THEN rest ELSE <<CodexEntryOf(entry, turn)>> \o rest

nextCodex(gs, newNode) ==
    gs.codex \o validNewEntries(gs.codex,
                                OrElse(newNode.newCodexEntries, Arr(<<>>)).v,
                                gs.turnCount + 1)

\* Step F for a known NPC without the sticky list: a status not given by the
\* update is always recomputed from the affinity.
updatedNpc_noSticky(npc, update) ==
    LET newAffinity == Max(0, Min(100, npc.affinity + update.affinityChange))
    IN  [npc EXCEPT !.affinity = newAffinity,
                    !.status = IF Truthy(update.newStatus) THEN update.newStatus.v
                               ELSE calculateRelationshipStatus(newAffinity)]

\* Step F, one update applied to an NPC the roster already holds.
updatedNpc(npc, update) ==
    LET newAffinity == Max(0, Min(100, npc.affinity + update.affinityChange))
        newStatus ==
            IF Truthy(update.newStatus) THEN update.newStatus.v
            ELSE IF npc.status \in stickyStatuses
                 THEN IF /\ newAffinity < 10
                         /\ npc.status # "Nemesis"
                         /\ npc.status # "Enemy"
                      THEN "Enemy"
                      ELSE npc.status
            ELSE calculateRelationshipStatus(newAffinity)
    IN  [npc EXCEPT !.affinity = newAffinity,
                    !.status = newStatus,
                    !.description = IF Truthy(update.npcDescription)
                                    THEN update.npcDescription.v
                                    ELSE npc.description]

\* Step F for an unknown NPC with the status always computed from the seeded
\* affinity, the update's newStatus ignored.
newNpc_computedStatus(update) ==
    LET newAffinity == Max(0, Min(100, 50 + update.affinityChange))
    IN  [id          |-> update.npcId,
         name        |-> update.npcName,
         description |-> OrElse(update.npcDescription, Str("Newly met")).v,
         affinity    |-> newAffinity,
         status      |-> calculateRelationshipStatus(newAffinity)]

\* Step F, one update that matches no NPC of the roster.
newNpc(update) ==
    LET newAffinity == Max(0, Min(100, 50 + update.affinityChange))
    IN  [id          |-> update.npcId,
         name        |-> update.npcName,
         description |-> OrElse(update.npcDescription, Str("Newly met")).v,
         affinity    |-> newAffinity,
         status      |-> IF Truthy(update.newStatus) THEN update.newStatus.v
                         ELSE calculateRelationshipStatus(newAffinity)]

\* Step F: the forEach over relationshipUpdates; each update sees the roster
\* as the updates before it left it.
RECURSIVE applyRelationshipUpdates(_, _)
applyRelationshipUpdates(rels, updates) ==
    IF updates = <<>> THEN rels
    ELSE LET update == Head(updates)
             Matches(r) == r.id = update.npcId \/ r.name = update.npcName
             index == findIndex([k \in 1..Len(rels) |-> Matches(rels[k])])
             next == IF index # 0
                     THEN [rels EXCEPT ![index] = updatedNpc(rels[index], update)]
                     ELSE Append(rels, newNpc(update))
         IN  applyRelationshipUpdates(next, Tail(updates))

nextRelationships(gs, newNode) ==
    applyRelationshipUpdates(gs.relationships,
                             OrElse(newNode.relationshipUpdates, Arr(<<>>)).v)

\* Step F: socialSuccess, set by an update of a known NPC with a change
\* above 5 or by a new NPC with a positive change.
RECURSIVE socialSuccessOf(_, _)
socialSuccessOf(rels, updates) ==
    IF updates = <<>> THEN FALSE
    ELSE LET update == Head(updates)
             Matches(r) == r.id = update.npcId \/ r.name = update.npcName
             index == findIndex([k \in 1..Len(rels) |-> Matches(rels[k])])
             next == IF index # 0
                     THEN [rels EXCEPT ![index] = updatedNpc(rels[index], update)]
                     ELSE Append(rels, newNpc(update))
             here == IF index # 0 THEN update.affinityChange > 5
                     ELSE update.affinityChange > 0
         IN  here \/ socialSuccessOf(next, Tail(updates))

\* Step H: the effects the turn schedules for its outcome, out of hit, heal
\* and heart (the if / else-if chain schedules at most one).
primaryEffects(gs, newNode) ==
    LET socialSuccess ==
            socialSuccessOf(gs.relationships,
                            OrElse(newNode.relationshipUpdates, Arr(<<>>)).v)
    IN  IF healthChange(newNode) < 0 THEN {"hit"}
        ELSE IF healthChange(newNode) > 0 THEN {"heal"}
        ELSE IF socialSuccess THEN {"heart"}
        ELSE {}

\* Step G: the event the turn surfaces, if any.
primaryEvent(newNode) ==
    IF Truthy(newNode.events) /\ Len(newNode.events.v) > 0
    THEN newNode.events.v[1]
    ELSE Null

\* Step I
nextGameState(gs, newNode) ==
    LET combat == nextCombat(gs, newNode)
        lv == leveling(gs, newNode, clampedHealth(gs, newNode))
    IN  [gs EXCEPT
            !.inventory = newNode.inventory,
            !.quest = newNode.currentQuest,
            !.location = newNode.locationName,
            !.turnCount = gs.turnCount + 1,
            !.stats = newStats(gs, newNode),
            !.health = lv.health,
            !.maxHealth = lv.maxHealth,
            !.worldState = Spread(gs.worldState, OrElse(newNode.worldUpdates, Obj(<<>>)).v),
            !.inCombat = combat.inCombat,
            !.enemyName = combat.enemyName,
            !.enemyHealth = combat.enemyHealth,
            !.enemyMaxHealth = combat.enemyMaxHealth,
            !.enemyAbilities = combat.enemyAbilities,
            !.xp = lv.xp,
            !.level = lv.level,
            !.skillPoints = lv.skillPoints,
            !.unlockedSkills = gs.unlockedSkills,
            !.codex = nextCodex(gs, newNode),
            !.relationships = nextRelationships(gs, newNode)]

-----------------------------------------------------------------------------
(* App.handleUnlockSkill and App.handleOpenCodex: the functional updates.  *)

\* An unlock that takes no points.
unlockSkill_free(prev, skillId) ==
    IF prev = Null THEN Null
    ELSE LET index == findIndex([k \in 1..Len(SKILL_TREE) |-> SKILL_TREE[k].id = skillId])
         IN  IF index = 0 THEN prev
             ELSE IF /\ prev.skillPoints >= SKILL_TREE[index].cost
                     /\ ~\E i \in 1..Len(prev.unlockedSkills) :
                            prev.unlockedSkills[i] = skillId
                  THEN [prev EXCEPT
                          !.unlockedSkills = Append(prev.unlockedSkills, skillId)]
                  ELSE prev

\* An unlock that does not look at the skills already unlocked.
unlockSkill_againIfAffordable(prev, skillId) ==
    IF prev = Null THEN Null
    ELSE LET index == findIndex([k \in 1..Len(SKILL_TREE) |-> SKILL_TREE[k].id = skillId])
         IN  IF index = 0 THEN prev
             ELSE IF prev.skillPoints >= SKILL_TREE[index].cost
                  THEN [prev EXCEPT
                          !.skillPoints = prev.skillPoints - SKILL_TREE[index].cost,
                          !.unlockedSkills = Append(prev.unlockedSkills, skillId)]
                  ELSE prev

unlockSkill(prev, skillId) ==
    IF prev = Null THEN Null
    ELSE LET index == findIndex([k \in 1..Len(SKILL_TREE) |-> SKILL_TREE[k].id = skillId])
         IN  IF index = 0 THEN prev
             ELSE IF /\ prev.skillPoints >= SKILL_TREE[index].cost
                     /\ ~\E i \in 1..Len(prev.unlockedSkills) :
                            prev.unlockedSkills[i] = skillId
                  THEN [prev EXCEPT
                          !.skillPoints = prev.skillPoints - SKILL_TREE[index].cost,
                          !.unlockedSkills = Append(prev.unlockedSkills, skillId)]
                  ELSE prev

\* A mark-as-read that flips the flag of every entry.
markCodexRead_flips(prev) ==
    IF prev = Null THEN Null
    ELSE [prev EXCEPT !.codex = [i \in 1..Len(prev.codex) |->
                                    [prev.codex[i] EXCEPT !.isNew = ~prev.codex[i].isNew]]]

markCodexRead(prev) ==
    IF prev = Null THEN Null
    ELSE [prev EXCEPT !.codex = [i \in 1..Len(prev.codex) |->
                                    [prev.codex[i] EXCEPT !.isNew = FALSE]]]

-----------------------------------------------------------------------------
(* geminiService.generateAdventureNode: the cache key and the cache.       *)

CACHE_LIMIT == 50

DEFAULT_SETTINGS == [provider |-> "gemini", model |-> "gemini-2.5-flash"]

\* choice.trim().toLowerCase() of the action strings of the model.
NormalizedChoice(choice) ==
    CASE choice = "Look around" -> "look around"
      [] choice = " look around " -> "look around"
      [] choice = "Attack" -> "attack"
      [] choice = "Inspect Sword" -> "inspect sword"
      [] OTHER -> choice

\* `Inspect ${item}`
InspectChoice(item) == "Inspect " \o item

\* What stateDump prints of the state: every field it interpolates, and
\* none of the others (skillPoints, enemyAbilities, ids, isNew, ...).
stateDump(currentState) ==
    [genre         |-> currentState.genre,
     location      |-> currentState.location,
     persona       |-> <<currentState.persona.name, currentState.persona.gender,
                         currentState.persona.appearance>>,
     health        |-> currentState.health,
     maxHealth     |-> currentState.maxHealth,
     stats         |-> currentState.stats,
     level         |-> currentState.level,
     xp            |-> currentState.xp,
     skills        |-> currentState.unlockedSkills,
     inventory     |-> currentState.inventory,
     quest         |-> currentState.quest,
     flags         |-> currentState.worldState,
     combat        |-> IF currentState.inCombat
                       THEN <<currentState.enemyName, currentState.enemyHealth,
                              currentState.enemyMaxHealth>>
                       ELSE <<>>,
     turn          |-> currentState.turnCount,
     lore          |-> [i \in 1..Len(currentState.codex) |-> currentState.codex[i].title],
     relationships |-> [i \in 1..Len(currentState.relationships) |->
                          LET r == currentState.relationships[i]
                          IN  <<r.name, r.description, r.status, r.affinity>>]]

cacheKey(hist, choice, currentState, settings) ==
    LET lastNode == IF Len(hist) > 0 THEN Obj(hist[Len(hist)]) ELSE Undefined
    IN  [provider |-> settings.provider,
         model    |-> settings.model,
         state    |-> stateDump(currentState),
         last     |-> OrElse(OptField(lastNode, "storySegment"), Str("start")),
         summary  |-> OrElse(OptField(lastNode, "summary"), Str("")),
         choice   |-> NormalizedChoice(choice)]

\* responseCache.has(key): the place of the key, 0 when it is not held.
cacheIndex(cache, key) == findIndex([k \in 1..Len(cache) |-> cache[k].key = key])

\* A save that evicts only once the cache holds more than CACHE_LIMIT entries.
cacheSave_lateEviction(cache, key, node) ==
    LET kept == IF Len(cache) > CACHE_LIMIT THEN Tail(cache) ELSE cache
        index == cacheIndex(kept, key)
    IN  IF index # 0 THEN [kept EXCEPT ![index] = [key |-> key, node |-> node]]
        ELSE Append(kept, [key |-> key, node |-> node])

\* "Save to Cache": drop the first key once CACHE_LIMIT entries are held, then
\* Map.set, which keeps the place of a key the map already holds.
cacheSave(cache, key, node) ==
    LET kept == IF Len(cache) >= CACHE_LIMIT THEN Tail(cache) ELSE cache
        index == cacheIndex(kept, key)
    IN  IF index # 0 THEN [kept EXCEPT ![index] = [key |-> key, node |-> node]]
        ELSE Append(kept, [key |-> key, node |-> node])

\* The messages a failed call carries, and whether the catch block opens the
\* settings for it (msg.includes("API Key") || msg.includes("Provider")).
ErrorMessages ==
    {"Provider API Error (500)",
     "AI response error: Failed to parse valid JSON. The model output might be malformed."}

opensSettings(msg) == msg = "Provider API Error (500)"

-----------------------------------------------------------------------------
(* The handlers of App as steps.                                           *)

RemoveAt(s, i) == SubSeq(s, 1, i - 1) \o SubSeq(s, i + 1, Len(s))

\* GameInterface is on screen: !isPlaying shows StartScreen, and
\* GameInterface needs a gameState.
Rendered == isPlaying /\ gameState # Null

\* GameInterface.isGameOver
isGameOver == gameState.health <= 0

Init ==
    /\ isPlaying = FALSE
    /\ loading = FALSE
    /\ gameState = Null
    /\ history = <<>>
    /\ error = Null
    /\ showSettings = FALSE
    /\ activeEvent = Null
    /\ startParams = Null
    /\ responseCache = <<>>
    /\ inFlight = <<>>
    /\ generatorCalls = 0

\* handleStartGame up to `await startGame(...)`: one request goes out.
handleStartGame(genre, persona) ==
    /\ generatorCalls < MaxCalls
    /\ Len(inFlight) < MaxInFlight
    /\ loading' = TRUE
    /\ error' = Null
    /\ startParams' = [genre |-> genre, persona |-> persona]
    /\ inFlight' = Append(inFlight, [kind |-> "start", genre |-> genre, persona |-> persona])
    /\ generatorCalls' = generatorCalls + 1
    /\ UNCHANGED <<isPlaying, gameState, history, showSettings, activeEvent, responseCache>>

\* StartScreen's "Begin Adventure", disabled while isLoading.
BeginAdventure ==
    /\ ~isPlaying
    /\ ~loading
    /\ handleStartGame("High Fantasy", Undefined)

\* The game-over "Try Again" button (onRestart); it has no disabled state.
handleRestart ==
    /\ Rendered
    /\ isGameOver
    /\ IF startParams # Null
       THEN handleStartGame(startParams.genre, startParams.persona)
       ELSE handleStartGame(gameState.genre, gameState.persona)

\* handleStartGame after the await, the call having succeeded with `data`.
StartGameResolved(i, data) ==
    /\ i \in 1..Len(inFlight)
    /\ inFlight[i].kind = "start"
    /\ LET initialNode == startNode(data)
       IN  /\ gameState' = newState(initialNode, inFlight[i].genre, inFlight[i].persona)
           /\ history' = <<initialNode>>
    /\ isPlaying' = TRUE
    /\ loading' = FALSE
    /\ inFlight' = RemoveAt(inFlight, i)
    /\ UNCHANGED <<error, showSettings, activeEvent, startParams, responseCache, generatorCalls>>

\* handleStartGame's catch and finally.
StartGameFailed(i, msg) ==
    /\ i \in 1..Len(inFlight)
    /\ inFlight[i].kind = "start"
    /\ error' = Str(msg)
    /\ showSettings' = (showSettings \/ opensSettings(msg))
    /\ loading' = FALSE
    /\ inFlight' = RemoveAt(inFlight, i)
    /\ UNCHANGED <<isPlaying, gameState, history, activeEvent, startParams, responseCache, generatorCalls>>

\* The game-over "Main Menu" button (onMainMenu = handleReset).
handleReset ==
    /\ Rendered
    /\ isGameOver
    /\ isPlaying' = FALSE
    /\ gameState' = Null
    /\ history' = <<>>
    /\ error' = Null
    /\ UNCHANGED <<loading, showSettings, activeEvent, startParams, responseCache, inFlight, generatorCalls>>

\* The header's "Menu" button, disabled while loading.
handleShowMenu ==
    /\ isPlaying
    /\ ~loading
    /\ isPlaying' = FALSE
    /\ UNCHANGED <<loading, gameState, history, error, showSettings, activeEvent,
                   startParams, responseCache, inFlight, generatorCalls>>

\* StartScreen's "Continue", shown for an active game.
handleContinue ==
    /\ ~isPlaying
    /\ gameState # Null
    /\ isPlaying' = TRUE
    /\ UNCHANGED <<loading, gameState, history, error, showSettings, activeEvent,
                   startParams, responseCache, inFlight, generatorCalls>>

handleUnlockSkill(skillId) ==
    /\ Rendered
    /\ gameState' = unlockSkill(gameState, skillId)
    /\ UNCHANGED <<isPlaying, loading, history, error, showSettings, activeEvent,
                   startParams, responseCache, inFlight, generatorCalls>>

handleOpenCodex ==
    /\ Rendered
    /\ gameState' = markCodexRead(gameState)
    /\ UNCHANGED <<isPlaying, loading, history, error, showSettings, activeEvent,
                   startParams, responseCache, inFlight, generatorCalls>>

\* The actions the player can submit: a choice button of the last node
\* (rendered unless the game is over, disabled while loading) or the
\* inspection of an inventory item in the sidebar (disabled while loading).
OfferedChoices ==
    IF Rendered /\ ~loading /\ Len(history) > 0
    THEN (IF isGameOver THEN {}
          ELSE {history[Len(history)].choices[k] :
                   k \in 1..Len(history[Len(history)].choices)})
         \cup {InspectChoice(gameState.inventory[k]) : k \in 1..Len(gameState.inventory)}
    ELSE {}

\* A catch block that puts back the gameState the handler captured when the
\* action was submitted, instead of leaving the state alone.
handleChoiceCommit_restoresCaptured(current, captured, outcome) ==
    IF outcome.ok THEN nextGameState(captured, outcome.node) ELSE captured

\* What the continuation of handleChoice leaves in gameState: the state
\* computed from the gameState the handler captured when the call succeeded,
\* the current state untouched when it threw.
handleChoiceCommit(current, captured, outcome) ==
    IF outcome.ok THEN nextGameState(captured, outcome.node) ELSE current

\* setHistory(prev => [...prev, newNode]), reached only on success.
handleChoiceHistory(current, outcome) ==
    IF outcome.ok THEN Append(current, outcome.node) ELSE current

\* The text handleChoice's catch block shows for a failure.
choiceErrorText(msg) ==
    IF opensSettings(msg) THEN msg
    ELSE "The threads of fate are tangled. (" \o msg \o ")"

\* handleChoice whose cache key is held: generateAdventureNode returns the
\* cached node without suspending on a request, and the turn resolves
\* before any other event is handled.
HandleChoiceCached(choice) ==
    /\ choice \in OfferedChoices
    /\ LET key == cacheKey(history, choice, gameState, DEFAULT_SETTINGS)
           index == cacheIndex(responseCache, key)
       IN  /\ index # 0
           /\ LET outcome == [ok |-> TRUE, node |-> responseCache[index].node]
              IN  /\ gameState' = handleChoiceCommit(gameState, gameState, outcome)
                  /\ history' = handleChoiceHistory(history, outcome)
                  /\ activeEvent' = primaryEvent(outcome.node)
    /\ loading' = FALSE
    /\ error' = Null
    /\ UNCHANGED <<isPlaying, showSettings, startParams, responseCache, inFlight, generatorCalls>>

\* handleChoice up to the request generateAdventureNode suspends on.
HandleChoiceBegin(choice) ==
    /\ choice \in OfferedChoices
    /\ generatorCalls < MaxCalls
    /\ Len(inFlight) < MaxInFlight
    /\ LET key == cacheKey(history, choice, gameState, DEFAULT_SETTINGS)
       IN  /\ cacheIndex(responseCache, key) = 0
           /\ inFlight' = Append(inFlight, [kind |-> "choice", gameState |-> gameState,
                                            choice |-> choice, key |-> key])
    /\ loading' = TRUE
    /\ error' = Null
    /\ activeEvent' = Null
    /\ generatorCalls' = generatorCalls + 1
    /\ UNCHANGED <<isPlaying, gameState, history, showSettings, startParams, responseCache>>

\* The request answered with `data`: generateAdventureNode saves the node to
\* the cache and returns it, handleChoice runs steps A to I and commits.
HandleChoiceResolved(i, data) ==
    /\ i \in 1..Len(inFlight)
    /\ inFlight[i].kind = "choice"
    /\ LET newNode == resultNode(data)
           outcome == [ok |-> TRUE, node |-> newNode]
       IN  /\ responseCache' = cacheSave(responseCache, inFlight[i].key, newNode)
           /\ gameState' = handleChoiceCommit(gameState, inFlight[i].gameState, outcome)
           /\ history' = handleChoiceHistory(history, outcome)
           /\ activeEvent' = IF primaryEvent(newNode) # Null
                             THEN primaryEvent(newNode) ELSE activeEvent
    /\ loading' = FALSE
    /\ inFlight' = RemoveAt(inFlight, i)
    /\ UNCHANGED <<isPlaying, error, showSettings, startParams, generatorCalls>>

\* A failed call whose handler has no `finally`: loading stays as it was.
HandleChoiceFailed_noFinally(i, msg) ==
    /\ i \in 1..Len(inFlight)
    /\ inFlight[i].kind = "choice"
    /\ LET outcome == [ok |-> FALSE, msg |-> msg]
       IN  /\ gameState' = handleChoiceCommit(gameState, inFlight[i].gameState, outcome)
           /\ history' = handleChoiceHistory(history, outcome)
    /\ error' = Str(choiceErrorText(msg))
    /\ showSettings' = (showSettings \/ opensSettings(msg))
    /\ inFlight' = RemoveAt(inFlight, i)
    /\ UNCHANGED <<isPlaying, loading, activeEvent, startParams, responseCache, generatorCalls>>

\* The request or the parse of its answer failed: handleChoice's catch and
\* finally.
HandleChoiceFailed(i, msg) ==
    /\ i \in 1..Len(inFlight)
    /\ inFlight[i].kind = "choice"
    /\ LET outcome == [ok |-> FALSE, msg |-> msg]
       IN  /\ gameState' = handleChoiceCommit(gameState, inFlight[i].gameState, outcome)
           /\ history' = handleChoiceHistory(history, outcome)
    /\ error' = Str(choiceErrorText(msg))
    /\ showSettings' = (showSettings \/ opensSettings(msg))
    /\ loading' = FALSE
    /\ inFlight' = RemoveAt(inFlight, i)
    /\ UNCHANGED <<isPlaying, activeEvent, startParams, responseCache, generatorCalls>>

-----------------------------------------------------------------------------
(* The payloads the Narrative Generator answers with: the parsed JSON,     *)
(* every optional key either omitted (Undefined), null or given.           *)

BaseData ==
    [storySegment        |-> Str("You stand at a crossroads."),
     summary             |-> Str("At the crossroads."),
     choices             |-> <<"Look around">>,
     inventory           |-> <<>>,
     currentQuest        |-> "Find the road",
     locationName        |-> "Crossroads",
     statsUpdate         |-> Undefined,
     worldUpdates        |-> Undefined,
     isCombat            |-> Bool(FALSE),
     enemyName           |-> Undefined,
     enemyHealth         |-> Undefined,
     enemyMaxHealth      |-> Undefined,
     enemyAbilities      |-> Undefined,
     xpAward             |-> Num(0),
     newCodexEntries     |-> Undefined,
     relationshipUpdates |-> Undefined,
     events              |-> Undefined]

\* statsUpdate: { health: h }
HealthUpdate(h) ==
    Obj([health |-> h, strength |-> Undefined, agility |-> Undefined,
         intelligence |-> Undefined, charisma |-> Undefined])

\* A turn that costs more health than the player has, and leaves an item in
\* the inventory.
LethalData ==
    [BaseData EXCEPT !.statsUpdate = HealthUpdate(Num(0 - 120)), !.inventory = <<"Sword">>]

\* Opening payloads: no stats at all, and a reported starting health.
OpeningData ==
    {BaseData,
     [BaseData EXCEPT !.statsUpdate = HealthUpdate(Num(150))]}

\* Turn payloads by health delta and xp award; the lethal ones leave an
\* item in the inventory, and one of them awards the xp of a level.
TurnData ==
    {BaseData,
     [BaseData EXCEPT !.xpAward = Undefined],
     [BaseData EXCEPT !.statsUpdate = HealthUpdate(Num(0 - 30)), !.xpAward = Num(60)],
     [BaseData EXCEPT !.statsUpdate = HealthUpdate(Num(50)), !.xpAward = Num(100)],
     LethalData,
     [LethalData EXCEPT !.xpAward = Num(100)],
     [BaseData EXCEPT !.xpAward = Num(350)]}

\* Turn payloads by their encounter fields.
Combat(name, health, maxHealth, abilities) ==
    [BaseData EXCEPT !.isCombat = Bool(TRUE), !.enemyName = name,
                     !.enemyHealth = health, !.enemyMaxHealth = maxHealth,
                     !.enemyAbilities = abilities]

TurnCombatData ==
    {BaseData, LethalData,
     [BaseData EXCEPT !.enemyName = Null, !.enemyHealth = Null,
                      !.enemyMaxHealth = Null, !.enemyAbilities = Null]}
    \cup {Combat(name, health, Undefined, Undefined) :
             name \in {Undefined, Str("Wolf"), Str("Bear")},
             health \in {Undefined, Null, Num(40)}}
    \cup {Combat(Str("Wolf"), Num(40), Num(80), Arr(<<"Bite">>)),
          Combat(Str("Wolf"), Undefined, Num(80), Undefined),
          Combat(Undefined, Undefined, Undefined, Arr(<<>>)),
          Combat(Str("Wolf"), Num(25), Undefined, Arr(<<>>)),
          Combat(Str("Bear"), Undefined, Undefined, Arr(<<"Claw">>))}

\* One relationship update instruction.
RelUpdate(id, name, change, status) ==
    [npcId |-> id, npcName |-> name, npcDescription |-> Undefined,
     affinityChange |-> change, newStatus |-> status]

Relations(updates) == [BaseData EXCEPT !.relationshipUpdates = Arr(updates)]

OpeningSocialData ==
    {BaseData,
     Relations(<<RelUpdate("npc_a", "Alice", 5, Undefined)>>),
     Relations(<<RelUpdate("npc_a", "Alice", 60, Undefined)>>),
     Relations(<<RelUpdate("npc_a", "Alice", 5, Undefined),
                 RelUpdate("npc_a", "Alice", 5, Undefined)>>)}

TurnSocialData ==
    {BaseData, LethalData,
     Relations(<<RelUpdate("npc_a", "Alice", 0 - 20, Undefined)>>),
     Relations(<<RelUpdate("npc_a", "Alice", 60, Undefined)>>),
     Relations(<<RelUpdate("npc_a", "Alicia", 10, Str("Rival"))>>),
     Relations(<<RelUpdate("npc_c", "Alice", 0 - 45, Undefined)>>),
     Relations(<<RelUpdate("npc_b", "Bob", 0 - 70, Undefined)>>),
     Relations(<<RelUpdate("npc_b", "Bob", 10, Undefined),
                 RelUpdate("npc_b", "Bob", 10, Undefined)>>)}

\* Relationship payloads by status: updates with and without newStatus, of an
\* NPC the roster holds and of one it does not.
OpeningStatusData ==
    {BaseData,
     Relations(<<RelUpdate("npc_a", "Alice", 5, Undefined)>>),
     Relations(<<RelUpdate("npc_a", "Alice", 0 - 35, Str("Crush"))>>)}

TurnStatusData ==
    {LethalData,
     Relations(<<RelUpdate("npc_a", "Alice", 0 - 20, Undefined)>>),
     Relations(<<RelUpdate("npc_a", "Alice", 0 - 10, Null)>>),
     Relations(<<RelUpdate("npc_a", "Alice", 0 - 45, Str("Nemesis"))>>),
     Relations(<<RelUpdate("npc_a", "Alice", 10, Str("Rival"))>>),
     Relations(<<RelUpdate("npc_b", "Bob", 0 - 45, Str("Ally"))>>),
     Relations(<<RelUpdate("npc_a", "Alice", 0 - 20, Undefined),
                 RelUpdate("npc_b", "Bob", 10, Str("Mentor"))>>)}

\* Relationship payloads by affinity: changes that put a new NPC (seeded at
\* 50) on each threshold and just below it, none with a newStatus.
ThresholdChanges == {0 - 41, 0 - 40, 0 - 26, 0 - 25, 0 - 6, 0 - 5, 14, 15, 34, 35}

OpeningThresholdData ==
    {BaseData}
    \cup {Relations(<<RelUpdate("npc_b", "Bob", change, Undefined)>>) :
             change \in {0 - 41, 0 - 40, 60}}

TurnThresholdData ==
    {LethalData}
    \cup {Relations(<<RelUpdate("npc_b", "Bob", change, Undefined)>>) :
             change \in ThresholdChanges}

\* One world-flag upsert of the array form.
Flag(id, value) == [id |-> Str(id), value |-> value]

World(updates) == [BaseData EXCEPT !.worldUpdates = updates]

\* World-flag payloads: the array form and the flat mapping, values to be
\* normalized, an id named twice, items without id or value, and null.
OpeningWorldData ==
    {BaseData,
     World(Arr(<<Flag("a", Bool(TRUE))>>))}

TurnWorldData ==
    {LethalData,
     World(Arr(<<Flag("b", Str("5"))>>)),
     World(Arr(<<Flag("a", Str("false"))>>)),
     World(Obj([c |-> Str("open"), b |-> Str("true")])),
     World(Arr(<<Flag("b", Num(12)), Flag("b", Str("-3"))>>)),
     World(Arr(<<[id |-> Undefined, value |-> Str("lost")], Flag("d", Undefined)>>)),
     World(Null)}

\* One proposed codex entry.
Entry(id, title) ==
    [id |-> id, title |-> title, category |-> "Lore", content |-> "..."]

Lore(entries) == [BaseData EXCEPT !.newCodexEntries = Arr(entries)]

OpeningCodexData ==
    {BaseData,
     Lore(<<Entry("ruins", "The Ruins")>>),
     Lore(<<Entry("ruins", "The Ruins"), Entry("ruins", "The Ruins")>>)}

TurnCodexData ==
    {BaseData, LethalData,
     Lore(<<Entry("ruins", "Ruins again")>>),
     Lore(<<Entry("ruins_2", "The Ruins")>>),
     Lore(<<Entry("king", "The King")>>),
     Lore(<<Entry("king", "The King"), Entry("king", "The King")>>),
     Lore(<<Entry("ruins", "The Ruins"), Entry("gate", "The Gate")>>)}

\* Turn payloads by what they give a hint for: health deltas, relationship
\* changes of Alice (met in the opening) and of Bob (not met), alone and
\* together, with and without a level-up or a codex entry.
OpeningHintData ==
    {BaseData, Relations(<<RelUpdate("npc_a", "Alice", 5, Undefined)>>)}

TurnHintData ==
    {LethalData,
     Relations(<<RelUpdate("npc_a", "Alice", 10, Undefined)>>),
     Relations(<<RelUpdate("npc_a", "Alice", 3, Undefined)>>),
     Relations(<<RelUpdate("npc_a", "Alice", 0 - 20, Undefined)>>),
     Relations(<<RelUpdate("npc_b", "Bob", 3, Undefined)>>),
     [Relations(<<RelUpdate("npc_a", "Alice", 10, Undefined)>>)
         EXCEPT !.statsUpdate = HealthUpdate(Num(0 - 30))],
     [Relations(<<RelUpdate("npc_a", "Alice", 10, Undefined)>>)
         EXCEPT !.statsUpdate = HealthUpdate(Num(50))],
     [BaseData EXCEPT !.statsUpdate = HealthUpdate(Num(0 - 30)), !.xpAward = Num(100)],
     [Relations(<<RelUpdate("npc_a", "Alice", 10, Undefined)>>)
         EXCEPT !.xpAward = Num(100),
                !.newCodexEntries = Arr(<<Entry("king", "The King")>>)]}

-----------------------------------------------------------------------------
(* Specifications: the same handlers under different payload sets.         *)

NextOn(openings, turns, skillIds) ==
    \/ BeginAdventure
    \/ handleRestart
    \/ handleReset
    \/ handleShowMenu
    \/ handleContinue
    \/ handleOpenCodex
    \/ \E skillId \in skillIds : handleUnlockSkill(skillId)
    \/ \E choice \in OfferedChoices : HandleChoiceCached(choice)
    \/ \E choice \in OfferedChoices : HandleChoiceBegin(choice)
    \/ \E i \in 1..Len(inFlight), data \in openings : StartGameResolved(i, data)
    \/ \E i \in 1..Len(inFlight), msg \in ErrorMessages : StartGameFailed(i, msg)
    \/ \E i \in 1..Len(inFlight), data \in turns : HandleChoiceResolved(i, data)
    \/ \E i \in 1..Len(inFlight), msg \in ErrorMessages : HandleChoiceFailed(i, msg)

\* Health, progression and the handlers' interleavings.
Next == NextOn(OpeningData, TurnData, {"power_strike", "no_such_skill"})
Spec == Init /\ [][Next]_vars

\* A request the Narrative Generator has received is answered or fails: the
\* awaited promise of a suspended handler settles.
RequestSettles ==
    \E i \in 1..Len(inFlight) :
        \/ \E data \in OpeningData : StartGameResolved(i, data)
        \/ \E data \in TurnData : HandleChoiceResolved(i, data)
        \/ \E msg \in ErrorMessages :
               StartGameFailed(i, msg) \/ HandleChoiceFailed(i, msg)

\* Spec with every pending request settling in the end.
SpecLive == Spec /\ WF_vars(RequestSettles)

\* One action at a time: the player acts only while no request is pending,
\* and a pending request settles before anything else happens.
Idle == inFlight = <<>>

NextSequential ==
    \/ Idle /\ BeginAdventure
    \/ Idle /\ handleRestart
    \/ Idle /\ handleReset
    \/ Idle /\ handleShowMenu
    \/ Idle /\ handleContinue
    \/ Idle /\ handleOpenCodex
    \/ \E skillId \in {"power_strike", "no_such_skill"} : Idle /\ handleUnlockSkill(skillId)
    \/ \E choice \in OfferedChoices : Idle /\ HandleChoiceCached(choice)
    \/ \E choice \in OfferedChoices : Idle /\ HandleChoiceBegin(choice)
    \/ \E i \in 1..Len(inFlight), data \in OpeningData : StartGameResolved(i, data)
    \/ \E i \in 1..Len(inFlight), msg \in ErrorMessages : StartGameFailed(i, msg)
    \/ \E i \in 1..Len(inFlight), data \in TurnData : HandleChoiceResolved(i, data)
    \/ \E i \in 1..Len(inFlight), msg \in ErrorMessages : HandleChoiceFailed(i, msg)

SpecSequential == Init /\ [][NextSequential]_vars

\* The encounter fields.
NextCombat == NextOn({BaseData}, TurnCombatData, {"power_strike"})
SpecCombat == Init /\ [][NextCombat]_vars

\* The relationship roster.
NextSocial == NextOn(OpeningSocialData, TurnSocialData, {"power_strike"})
SpecSocial == Init /\ [][NextSocial]_vars

\* The codex.
NextCodex == NextOn(OpeningCodexData, TurnCodexData, {"power_strike"})
SpecCodex == Init /\ [][NextCodex]_vars

\* The statuses of the roster.
NextStatus == NextOn(OpeningStatusData, TurnStatusData, {"power_strike"})
SpecStatus == Init /\ [][NextStatus]_vars

\* The affinity thresholds.
NextThreshold == NextOn(OpeningThresholdData, TurnThresholdData, {"power_strike"})
SpecThreshold == Init /\ [][NextThreshold]_vars

\* The effect hints.
NextHint == NextOn(OpeningHintData, TurnHintData, {"power_strike"})
SpecHint == Init /\ [][NextHint]_vars

\* The world flags.
NextWorld == NextOn(OpeningWorldData, TurnWorldData, {"power_strike"})
SpecWorld == Init /\ [][NextWorld]_vars

\* The response cache.  The cache is a module-level Map: it outlives a game
\* and the return to the main menu, so a game can begin with the entries
\* earlier games of the page left in it.  SeededCache(n) is such a cache of n
\* entries in insertion order: the oldest is the turn "Look around" of the
\* first state of a game, answered with the lethal payload, the others are
\* turns of states that no game of the behaviour comes back to.
FirstState == newState(startNode(BaseData), "High Fantasy", Undefined)

SeededCache(n) ==
    [k \in 1..n |->
        IF k = 1
        THEN [key  |-> cacheKey(<<startNode(BaseData)>>, "Look around", FirstState,
                                DEFAULT_SETTINGS),
              node |-> resultNode(LethalData)]
        ELSE [key  |-> cacheKey(<<startNode(BaseData)>>, "Look around",
                                [FirstState EXCEPT !.turnCount = 100 + k],
                                DEFAULT_SETTINGS),
              node |-> resultNode(BaseData)]]

\* The sizes of the cache a behaviour begins with: empty, one short of
\* CACHE_LIMIT, and full.
CacheFill == {0, CACHE_LIMIT - 1, CACHE_LIMIT}

\* The main menu, after the games that filled the cache (none for an empty
\* cache); generatorCalls counts the requests from here on.
InitCache ==
    \E n \in CacheFill :
        /\ isPlaying = FALSE
        /\ loading = FALSE
        /\ gameState = Null
        /\ history = <<>>
        /\ error = Null
        /\ showSettings = FALSE
        /\ activeEvent = Null
        /\ startParams = (IF n = 0 THEN Null
                          ELSE [genre |-> "High Fantasy", persona |-> Undefined])
        /\ responseCache = SeededCache(n)
        /\ inFlight = <<>>
        /\ generatorCalls = 0

\* Opening payloads that differ in the case and the padding of the choice
\* they offer, and two turn payloads.
OpeningCacheData ==
    {BaseData, [BaseData EXCEPT !.choices = <<" look around ">>]}

TurnCacheData == {BaseData, LethalData}

NextCache == NextOn(OpeningCacheData, TurnCacheData, {"power_strike"})
SpecCache == InitCache /\ [][NextCache]_vars

-----------------------------------------------------------------------------
(* Steps of a behaviour, told apart by what they do to inFlight and        *)
(* history.                                                                *)

\* The suspended handleChoice at place i resumes with a node and commits.
TurnResolvedAt(i) ==
    /\ i \in 1..Len(inFlight)
    /\ inFlight[i].kind = "choice"
    /\ inFlight' = RemoveAt(inFlight, i)
    /\ Len(history') = Len(history) + 1

\* A handleChoice served from the cache: nothing suspends, history grows.
TurnResolvedFromCache ==
    /\ inFlight' = inFlight
    /\ Len(history') = Len(history) + 1

\* The node a resolved turn appended to the history.
AppendedNode == history'[Len(history')]

-----------------------------------------------------------------------------
(* The claims.                                                             *)

\* C1: in every reachable state of a game, 0 <= health <= maxHealth, the
\* state handleStartGame builds from the reported starting health included.
C1_HealthWithinBounds ==
    gameState # Null =>
        /\ 0 <= gameState.health
        /\ gameState.health <= gameState.maxHealth

\* C2: the committed xp satisfies 0 <= xp < level * 100 for the committed
\* level, whatever xpAward the payload carries.
C2_XpBelowThreshold ==
    gameState # Null =>
        /\ 0 <= gameState.xp
        /\ gameState.xp < gameState.level * 100

\* What C9 says of one resolved turn: `before` is the state the turn was
\* resolved against, `node` its payload, `after` the committed state.
C9_LevelingOf(before, node, after) ==
    LET A == IF node.xpAward \in {Undefined, Null} THEN 0 ELSE node.xpAward.v
        delta == IF node.statsUpdate \in {Undefined, Null} THEN 0
                 ELSE IF node.statsUpdate.v.health \in {Undefined, Null} THEN 0
                 ELSE node.statsUpdate.v.health.v
        raw == before.health + delta
        clamped == IF raw > before.maxHealth THEN before.maxHealth
                   ELSE IF raw < 0 THEN 0 ELSE raw
    IN  IF before.xp + A >= before.level * 100
        THEN /\ after.level = before.level + 1
             /\ after.xp = before.xp + A - before.level * 100
             /\ after.skillPoints = before.skillPoints + 1
             /\ after.maxHealth = before.maxHealth + 10
             /\ after.health = clamped + 10
        ELSE /\ after.level = before.level
             /\ after.skillPoints = before.skillPoints
             /\ after.maxHealth = before.maxHealth
             /\ after.xp = before.xp + A

\* C9: a resolved turn whose award reaches the threshold L*100 commits level
\* L+1, xp X+A-L*100, one more skill point, maxHealth+10 and the clamped
\* health plus 10; below the threshold only xp changes, to X+A.
C9_LevelingStep ==
    [][/\ \A i \in 1..Len(inFlight) :
            TurnResolvedAt(i) =>
                C9_LevelingOf(inFlight[i].gameState, AppendedNode, gameState')
       /\ TurnResolvedFromCache =>
            C9_LevelingOf(gameState, AppendedNode, gameState')]_vars

\* A turn has levelled the player up from level 1 with an award of exactly
\* the threshold.
C9_Witness ==
    /\ gameState # Null
    /\ gameState.level = 2
    /\ gameState.xp = 0
    /\ gameState.skillPoints = 1
    /\ gameState.maxHealth = 110
    /\ Len(history) = 2

\* C7: a turn whose generator call or parse fails leaves every field of the
\* GameState, turnCount included, and the history log as they were; so does
\* the part of handleChoice that runs before the call.
C7_FailedTurnCommitsNothing ==
    [][(\/ \E i \in 1..Len(inFlight), msg \in ErrorMessages : HandleChoiceFailed(i, msg)
        \/ \E choice \in OfferedChoices : HandleChoiceBegin(choice))
       => (gameState' = gameState /\ history' = history)]_vars

\* A turn of a running game has just failed on an unparseable response.
C7_Witness ==
    /\ Rendered
    /\ ~loading
    /\ inFlight = <<>>
    /\ gameState.turnCount = 2
    /\ Len(history) = 2
    /\ error = Str(choiceErrorText("AI response error: Failed to parse valid JSON. The model output might be malformed."))

\* C8: while a handleChoice call is suspended on the generator it is the only
\* suspended handler: no second handleChoice and no game start has begun.
C8_SingleTurnInFlight ==
    (\E i \in 1..Len(inFlight) : inFlight[i].kind = "choice") => Len(inFlight) = 1


\* C3: the encounter fields co-vary: outside combat all four are null, in
\* combat none of them is.
C3_EncounterFieldsCoVary ==
    gameState # Null =>
        IF gameState.inCombat
        THEN /\ gameState.enemyName \notin {Null, Undefined}
             /\ gameState.enemyHealth \notin {Null, Undefined}
             /\ gameState.enemyMaxHealth \notin {Null, Undefined}
             /\ gameState.enemyAbilities \notin {Null, Undefined}
        ELSE /\ gameState.enemyName = Null
             /\ gameState.enemyHealth = Null
             /\ gameState.enemyMaxHealth = Null
             /\ gameState.enemyAbilities = Null

\* C4: every NPC of the roster has 0 <= affinity <= 100, those created from
\* the opening payload included.
C4_AffinityInRange ==
    gameState # Null =>
        \A i \in 1..Len(gameState.relationships) :
            /\ 0 <= gameState.relationships[i].affinity
            /\ gameState.relationships[i].affinity <= 100

\* C5: no two entries of the roster share an id, and no two share a name.
C5_RosterUnique ==
    gameState # Null =>
        \A i, j \in 1..Len(gameState.relationships) :
            i # j => /\ gameState.relationships[i].id # gameState.relationships[j].id
                     /\ gameState.relationships[i].name # gameState.relationships[j].name

\* C6: no two codex entries share an id, and no two share a title.
C6_CodexUnique ==
    gameState # Null =>
        \A i, j \in 1..Len(gameState.codex) :
            i # j => /\ gameState.codex[i].id # gameState.codex[j].id
                     /\ gameState.codex[i].title # gameState.codex[j].title

\* What C10 says of one resolved turn that enters an encounter.
C10_EntryOf(before, node, after) ==
    LET absent(x) == x \in {Undefined, Null}
        declaresCombat == node.isCombat = Bool(TRUE)
        namesOther == ~absent(node.enemyName) /\ node.enemyName # before.enemyName
    IN  (declaresCombat /\ (~before.inCombat \/ namesOther)) =>
            /\ after.inCombat
            /\ after.enemyMaxHealth =
                  (IF absent(node.enemyMaxHealth) THEN Num(100) ELSE node.enemyMaxHealth)
            /\ after.enemyHealth =
                  (IF absent(node.enemyHealth) THEN after.enemyMaxHealth ELSE node.enemyHealth)
            /\ after.enemyAbilities =
                  (IF absent(node.enemyAbilities) THEN Arr(<<>>) ELSE node.enemyAbilities)
            /\ ~absent(node.enemyName) => after.enemyName = node.enemyName

\* C10: a turn that enters an encounter (combat declared, and no encounter
\* active or another enemy named) builds it from the payload alone: max is
\* the payload's or 100, health the payload's or max, abilities the payload's
\* or empty.
C10_EncounterEntry ==
    [][/\ \A i \in 1..Len(inFlight) :
            TurnResolvedAt(i) =>
                C10_EntryOf(inFlight[i].gameState, AppendedNode, gameState')
       /\ TurnResolvedFromCache =>
            C10_EntryOf(gameState, AppendedNode, gameState')]_vars

\* What C11 says of one resolved turn: a payload that does not declare
\* combat leaves no encounter, whatever `before` held.
C11_ExitOf(before, node, after) ==
    node.isCombat # Bool(TRUE) =>
        /\ after.inCombat = FALSE
        /\ after.enemyName = Null
        /\ after.enemyHealth = Null
        /\ after.enemyMaxHealth = Null
        /\ after.enemyAbilities = Null

\* C11: every resolved turn whose payload does not declare combat commits
\* inCombat = false and the four enemy fields null, from whatever encounter
\* state the turn was resolved against.
C11_EncounterExit ==
    [][/\ \A i \in 1..Len(inFlight) :
            TurnResolvedAt(i) =>
                C11_ExitOf(inFlight[i].gameState, AppendedNode, gameState')
       /\ TurnResolvedFromCache =>
            C11_ExitOf(gameState, AppendedNode, gameState')]_vars

\* An encounter was entered, left on a payload without combat, and a later
\* combat payload has entered an encounter again.
C11_Witness ==
    /\ gameState # Null
    /\ Len(history) = 4
    /\ history[2].isCombat = Bool(TRUE)
    /\ history[3].isCombat = Bool(FALSE)
    /\ history[4].isCombat = Bool(TRUE)
    /\ gameState.turnCount = 4
    /\ gameState.inCombat
    /\ gameState.enemyName = Str("Bear")

\* The relationship updates a node carries, none when the key is absent.
C12_UpdatesOf(node) ==
    IF node.relationshipUpdates \in {Undefined, Null} THEN <<>>
    ELSE node.relationshipUpdates.v

\* The place of the NPC an update addresses, by id or by name; 0 when the
\* roster holds no such NPC.
C12_TargetOf(rels, u) ==
    findIndex([k \in 1..Len(rels) |-> rels[k].id = u.npcId \/ rels[k].name = u.npcName])

\* The n-th update is the only one of the payload that names its NPC.
C12_OnlyUpdateOf(updates, n) ==
    \A m \in 1..Len(updates) :
        m # n => /\ updates[m].npcId # updates[n].npcId
                 /\ updates[m].npcName # updates[n].npcName

C12_Sticky ==
    {"Rival", "Crush", "Partner", "Nemesis", "Complicated", "Mentor",
     "Protege", "Ally", "Confidant"}

\* What C12 says of one resolved turn.
C12_StickyOf(before, node, after) ==
    LET updates == C12_UpdatesOf(node)
    IN  \A n \in 1..Len(updates) :
            LET u == updates[n]
                k == C12_TargetOf(before.relationships, u)
            IN  (/\ k # 0
                 /\ C12_OnlyUpdateOf(updates, n)
                 /\ before.relationships[k].status \in C12_Sticky
                 /\ u.newStatus \in {Undefined, Null}) =>
                    LET npc == before.relationships[k]
                        raw == npc.affinity + u.affinityChange
                        a == IF raw > 100 THEN 100 ELSE IF raw < 0 THEN 0 ELSE raw
                    IN  after.relationships[k].status =
                            (IF a < 10 /\ npc.status # "Nemesis" THEN "Enemy"
                             ELSE npc.status)

\* C12: an update without newStatus of an NPC whose status is one of Rival,
\* Crush, Partner, Nemesis, Complicated, Mentor, Protege, Ally, Confidant
\* leaves the status as it is, unless the clamped new affinity is below 10
\* and the status is not Nemesis, in which case it becomes Enemy.
C12_StickyStatus ==
    [][/\ \A i \in 1..Len(inFlight) :
            TurnResolvedAt(i) =>
                C12_StickyOf(inFlight[i].gameState, AppendedNode, gameState')
       /\ TurnResolvedFromCache =>
            C12_StickyOf(gameState, AppendedNode, gameState')]_vars

\* Crush at 15 has received -10 without a newStatus and is now Enemy at 5.
C12_Witness ==
    /\ gameState # Null
    /\ Len(history) = 2
    /\ history[1].relationshipUpdates =
           Arr(<<RelUpdate("npc_a", "Alice", 0 - 35, Str("Crush"))>>)
    /\ history[2].relationshipUpdates =
           Arr(<<RelUpdate("npc_a", "Alice", 0 - 10, Null)>>)
    /\ Len(gameState.relationships) = 1
    /\ gameState.relationships[1].affinity = 5
    /\ gameState.relationships[1].status = "Enemy"

\* What C13 says of one set of updates applied to the roster of `before`.
C13_ExplicitOf(before, node, after) ==
    LET updates == C12_UpdatesOf(node)
    IN  \A n \in 1..Len(updates) :
            LET u == updates[n]
                k == C12_TargetOf(before.relationships, u)
            IN  (/\ C12_OnlyUpdateOf(updates, n)
                 /\ u.newStatus.tag = "string"
                 /\ u.newStatus.v # "") =>
                    IF k # 0
                    THEN after.relationships[k].status = u.newStatus.v
                    ELSE \E j \in (Len(before.relationships) + 1)..Len(after.relationships) :
                            /\ after.relationships[j].id = u.npcId
                            /\ after.relationships[j].status = u.newStatus.v

\* C13: an update that supplies newStatus gives the NPC that status verbatim,
\* for an NPC of the roster whatever its status and resulting affinity, for
\* an NPC a turn adds, and for an NPC of the opening payload.
C13_ExplicitStatus ==
    [][/\ \A i \in 1..Len(inFlight) :
            TurnResolvedAt(i) =>
                C13_ExplicitOf(inFlight[i].gameState, AppendedNode, gameState')
       /\ TurnResolvedFromCache =>
            C13_ExplicitOf(gameState, AppendedNode, gameState')
       /\ \A i \in 1..Len(inFlight), data \in OpeningStatusData :
            StartGameResolved(i, data) =>
                C13_ExplicitOf([relationships |-> <<>>], startNode(data), gameState')]_vars

\* Alice, whose status was sticky, holds the Nemesis an update gave her, and
\* Bob was added as Ally at an affinity of 5.
C13_Witness ==
    /\ gameState # Null
    /\ Len(gameState.relationships) = 2
    /\ gameState.relationships[1].id = "npc_a"
    /\ gameState.relationships[1].status = "Nemesis"
    /\ gameState.relationships[2].id = "npc_b"
    /\ gameState.relationships[2].status = "Ally"
    /\ gameState.relationships[2].affinity = 5
    /\ history[1].relationshipUpdates =
           Arr(<<RelUpdate("npc_a", "Alice", 0 - 35, Str("Crush"))>>)

\* The codex entries a node proposes, none when the key is absent.
C14_EntriesOf(node) ==
    IF node.newCodexEntries \in {Undefined, Null} THEN <<>>
    ELSE node.newCodexEntries.v

\* An entry with this id or this exact title is in the codex.
C14_Held(codex, id, title) ==
    \E i \in 1..Len(codex) : codex[i].id = id \/ codex[i].title = title

\* What C14 says of one resolved turn.
C14_DedupOf(before, node, after) ==
    LET entries == C14_EntriesOf(node)
        size == Len(before.codex)
    IN  /\ Len(after.codex) >= size
        /\ \A j \in (size + 1)..Len(after.codex) :
               ~C14_Held(before.codex, after.codex[j].id, after.codex[j].title)
        /\ (\A n \in 1..Len(entries) :
               C14_Held(before.codex, entries[n].id, entries[n].title))
             => after.codex = before.codex

\* C14: a proposed entry whose id or whose exact title is the id or title of
\* an entry of the codex is not admitted, and a payload of such entries only
\* leaves the codex as it was.
C14_CodexDedup ==
    [][/\ \A i \in 1..Len(inFlight) :
            TurnResolvedAt(i) =>
                C14_DedupOf(inFlight[i].gameState, AppendedNode, gameState')
       /\ TurnResolvedFromCache =>
            C14_DedupOf(gameState, AppendedNode, gameState')]_vars

\* A turn proposed a new id under the title of the one entry held, and the
\* codex still holds that one entry.
C14_Witness ==
    /\ gameState # Null
    /\ Len(history) = 2
    /\ history[1].newCodexEntries = Arr(<<Entry("ruins", "The Ruins")>>)
    /\ history[2].newCodexEntries = Arr(<<Entry("ruins_2", "The Ruins")>>)
    /\ gameState.turnCount = 2
    /\ Len(gameState.codex) = 1
    /\ gameState.codex[1].id = "ruins"

\* One step keeps the codex: every entry stays at its place with its id,
\* title, category, content and turnUnlocked, and isNew does not turn true.
C15_KeepsCodex(old, new) ==
    /\ Len(new) >= Len(old)
    /\ \A i \in 1..Len(old) :
          /\ new[i].id = old[i].id
          /\ new[i].title = old[i].title
          /\ new[i].category = old[i].category
          /\ new[i].content = old[i].content
          /\ new[i].turnUnlocked = old[i].turnUnlocked
          /\ new[i].isNew => old[i].isNew

\* C15: within a session (a step that is not the start of a game and not the
\* return to the main menu) the codex is append-only: resolved and failed
\* turns, skill unlocks and mark-as-read keep every entry, and isNew changes
\* only from true to false.
C15_CodexAppendOnly ==
    [][(/\ gameState # Null
        /\ gameState' # Null
        /\ ~\E i \in 1..Len(inFlight), data \in OpeningCodexData :
               StartGameResolved(i, data))
       => C15_KeepsCodex(gameState.codex, gameState'.codex)]_vars

\* The normalized form of a flag value: "true" and "false" are booleans, a
\* numeric-looking string is its number, any other value is itself.
C16_Normalized(v) ==
    CASE v = Str("true") -> Bool(TRUE)
      [] v = Str("false") -> Bool(FALSE)
      [] v = Str("5") -> Num(5)
      [] v = Str("12") -> Num(12)
      [] v = Str("-3") -> Num(0 - 3)
      [] v = Str("0") -> Num(0)
      [] OTHER -> v

\* The flag ids a raw worldUpdates names with a value.
C16_Named(raw) ==
    IF raw.tag = "array"
    THEN {raw.v[n].id.v : n \in {m \in 1..Len(raw.v) :
                                    /\ raw.v[m].id.tag = "string"
                                    /\ raw.v[m].value # Undefined}}
    ELSE IF raw.tag = "object" THEN DOMAIN raw.v
    ELSE {}

\* The value a raw worldUpdates gives a flag id it names; of an array, the
\* last item that names it.
C16_ValueOf(raw, id) ==
    IF raw.tag = "array"
    THEN LET at == {m \in 1..Len(raw.v) : /\ raw.v[m].id = Str(id)
                                           /\ raw.v[m].value # Undefined}
             last == CHOOSE m \in at : \A n \in at : n <= m
         IN  raw.v[last].value
    ELSE raw.v[id]

\* What C16 says of one resolved turn: `prior` the flags of the state the
\* turn was resolved against, `raw` the payload's worldUpdates.
C16_MergeOf(prior, raw, after) ==
    /\ DOMAIN after = DOMAIN prior \cup C16_Named(raw)
    /\ \A id \in C16_Named(raw) : after[id] = C16_Normalized(C16_ValueOf(raw, id))
    /\ \A id \in DOMAIN prior \ C16_Named(raw) : after[id] = prior[id]

-----------------------------------------------------------------------------
\* C17  Cache determinism.
\* The nodes the cache holds under a key.
C17_HeldUnder(cache, key) ==
    {cache[k].node : k \in {j \in 1..Len(cache) : cache[j].key = key}}

\* An action submitted while its key (provider, model, state summary, last
\* excerpt and summary, trimmed and lower-cased action) is held is answered
\* with the node held under the key, and no request is sent.
C17_ServedFromCache ==
    \A choice \in OfferedChoices :
        LET held == C17_HeldUnder(responseCache,
                        cacheKey(history, choice, gameState, DEFAULT_SETTINGS))
        IN  (held # {} /\ (HandleChoiceBegin(choice) \/ HandleChoiceCached(choice)))
                => /\ generatorCalls' = generatorCalls
                   /\ inFlight' = inFlight
                   /\ Len(history') = Len(history) + 1
                   /\ AppendedNode \in held

\* As long as a key stays in the cache, the node a call with that key gets
\* stays the one the first successful call with it returned.
C17_EntryKept ==
    \A k \in 1..Len(responseCache) :
        C17_HeldUnder(responseCache', responseCache[k].key)
            \subseteq {responseCache[k].node}

\* C17: once a generateAdventureNode call has succeeded and while its entry
\* is not evicted, every later call with the same provider, model, state
\* summary, last excerpt and summary and normalized action returns the same
\* node and sends no request.
C17_CacheDeterminism == [][C17_ServedFromCache /\ C17_EntryKept]_vars

-----------------------------------------------------------------------------
\* C18  Cache bound and eviction order.
\* What a save leaves of the cache before it writes: everything, or
\* everything but the earliest-inserted entry when CACHE_LIMIT are held.
C18_Kept ==
    IF Len(responseCache) = CACHE_LIMIT THEN Tail(responseCache) ELSE responseCache

\* A step that changes the cache inserts one entry behind the kept ones, or
\* replaces the node of a key that is held, in its place; a step served
\* from the cache changes nothing of it.
C18_Step ==
    /\ TurnResolvedFromCache => responseCache' = responseCache
    /\ responseCache' # responseCache =>
          /\ responseCache' # <<>>
          /\ \/ responseCache' = Append(C18_Kept, responseCache'[Len(responseCache')])
             \/ /\ Len(responseCache') = Len(C18_Kept)
                /\ \E j \in 1..Len(C18_Kept) :
                      /\ responseCache'[j].key = C18_Kept[j].key
                      /\ \A k \in 1..Len(C18_Kept) :
                            k # j => responseCache'[k] = C18_Kept[k]

\* C18: the cache never holds more than 50 entries; an insertion made while
\* 50 are held evicts exactly the earliest-inserted entry, and a cache hit
\* does not change the order of eviction.
C18_CacheBound ==
    /\ [](Len(responseCache) <= 50)
    /\ [][C18_Step]_vars

\* A full cache whose oldest entry was served and then evicted by the
\* insertion of the turn that followed.
C18_Witness ==
    /\ Len(responseCache) = 50
    /\ responseCache[1] = SeededCache(50)[2]
    /\ responseCache[50].key.choice = "inspect sword"

-----------------------------------------------------------------------------
\* C19  Skill unlock.
\* The skills of the tree with the given id (one or none).
C19_Known(skillId) ==
    {SKILL_TREE[k] : k \in {j \in 1..Len(SKILL_TREE) : SKILL_TREE[j].id = skillId}}

\* The unlock is allowed: the id is known, the points cover the cost and the
\* id is not unlocked yet.
C19_Allowed(gs, skillId) ==
    /\ \E skill \in C19_Known(skillId) : gs.skillPoints >= skill.cost
    /\ \A i \in 1..Len(gs.unlockedSkills) : gs.unlockedSkills[i] # skillId

C19_UnlockOf(before, skillId, after) ==
    IF C19_Allowed(before, skillId)
    THEN /\ \E skill \in C19_Known(skillId) :
               after.skillPoints = before.skillPoints - skill.cost
         /\ after.unlockedSkills = Append(before.unlockedSkills, skillId)
         /\ \A f \in DOMAIN before \ {"skillPoints", "unlockedSkills"} :
               after[f] = before[f]
    ELSE after = before

\* C19: handleUnlockSkill deducts the cost and adds the id if and only if
\* the skill is known, skillPoints >= cost and the id is not unlocked yet;
\* otherwise the GameState is unchanged; no error is raised either way, and
\* a successful unlock changes no other field.
C19_SkillUnlock ==
    [][\A skillId \in {"power_strike", "no_such_skill"} :
          handleUnlockSkill(skillId)
              => /\ C19_UnlockOf(gameState, skillId, gameState')
                 /\ error' = error
                 /\ showSettings' = showSettings]_vars

\* A skill is unlocked and the points would pay for it once more.
C19_Witness ==
    /\ Rendered
    /\ gameState.unlockedSkills = <<"power_strike">>
    /\ gameState.skillPoints >= 1

-----------------------------------------------------------------------------
\* C20  turnCount.
\* A step within a session: a game is on before and after it, and the step
\* is not the start of a new game.
C20_InSession ==
    /\ gameState # Null
    /\ gameState' # Null
    /\ ~\E i \in 1..Len(inFlight), data \in OpeningData : StartGameResolved(i, data)

\* A turn resolved: a suspended handleChoice resumed with a node, or a
\* handleChoice was served from the cache.
C20_TurnResolved ==
    \/ \E i \in 1..Len(inFlight) : TurnResolvedAt(i)
    \/ TurnResolvedFromCache

\* C20: within a session turnCount never decreases; a resolved turn adds
\* exactly 1 to it, and every other step (a failed turn, a skill unlock,
\* mark-as-read, ...) leaves it as it is.
C20_TurnCount ==
    [][C20_InSession =>
          /\ gameState'.turnCount >= gameState.turnCount
          /\ IF C20_TurnResolved
             THEN gameState'.turnCount = gameState.turnCount + 1
             ELSE gameState'.turnCount = gameState.turnCount]_vars

-----------------------------------------------------------------------------
\* C21  Mark-as-read.
\* `after` is `before` with isNew false on every codex entry and nothing
\* else changed.
C21_ReadOf(before, after) ==
    /\ \A f \in DOMAIN before \ {"codex"} : after[f] = before[f]
    /\ Len(after.codex) = Len(before.codex)
    /\ \A i \in 1..Len(before.codex) :
          /\ after.codex[i].isNew = FALSE
          /\ \A f \in DOMAIN before.codex[i] \ {"isNew"} :
                after.codex[i][f] = before.codex[i][f]

\* C21: handleOpenCodex sets isNew to false on every codex entry, leaves
\* every other field of every entry and of the GameState as it is, and
\* applying it once more gives the same state.
C21_MarkAsRead ==
    [][handleOpenCodex
          => /\ C21_ReadOf(gameState, gameState')
             /\ markCodexRead(gameState') = gameState']_vars

\* The codex was opened with a new entry in it.
C21_Witness ==
    /\ Rendered
    /\ Len(gameState.codex) >= 1
    /\ \A i \in 1..Len(gameState.codex) : ~gameState.codex[i].isNew

-----------------------------------------------------------------------------
\* C22  Every started turn ends.
\* A handleChoice call is suspended on the generator.
C22_TurnInFlight == \E i \in 1..Len(inFlight) : inFlight[i].kind = "choice"

\* The suspended handleChoice at place i ends, with a node or with a failure.
C22_TurnEndsAt(i) ==
    /\ i \in 1..Len(inFlight)
    /\ inFlight[i].kind = "choice"
    /\ inFlight' = RemoveAt(inFlight, i)

\* What the end of a turn leaves: loading is false, so the buttons of the
\* last node's choices are enabled when the game is shown and not over, and
\* a failure leaves the state and the log of the last resolved turn.
C22_EndOfTurn ==
    \A i \in 1..Len(inFlight) :
        C22_TurnEndsAt(i)
            => /\ loading' = FALSE
               /\ (Len(history') = Len(history))
                     => (gameState' = gameState /\ history' = history)
               /\ (isPlaying' /\ gameState' # Null /\ gameState'.health > 0)
                     => \A k \in 1..Len(history'[Len(history')].choices) :
                           history'[Len(history')].choices[k] \in OfferedChoices'

\* C22: every turn that is started ends, with a node or with a failure, and
\* leaves loading false so that an action can be submitted again; after a
\* failure the session is on the last successfully resolved turn.
C22_TurnEnds ==
    /\ C22_TurnInFlight ~> (~C22_TurnInFlight /\ ~loading)
    /\ [][C22_EndOfTurn]_vars

\* A turn has failed, and the choice can be submitted again.
C22_Witness ==
    /\ Rendered
    /\ ~loading
    /\ error = Str(choiceErrorText("Provider API Error (500)"))
    /\ "Look around" \in OfferedChoices

-----------------------------------------------------------------------------
\* C23  Same-encounter update.
\* What C23 says of one resolved turn: in an active encounter, a combat
\* payload that names the same enemy or none keeps the name and the maximum,
\* changes the health only to a health the payload supplies and the
\* abilities only to a non-empty list the payload supplies.
C23_UpdateOf(before, node, after) ==
    LET absent(x) == x \in {Undefined, Null}
        sameEncounter ==
            /\ before.inCombat
            /\ node.isCombat = Bool(TRUE)
            /\ (absent(node.enemyName) \/ node.enemyName = before.enemyName)
    IN  sameEncounter =>
            /\ after.inCombat
            /\ after.enemyName = before.enemyName
            /\ after.enemyMaxHealth = before.enemyMaxHealth
            /\ after.enemyHealth # before.enemyHealth
                  => (~absent(node.enemyHealth) /\ after.enemyHealth = node.enemyHealth)
            /\ after.enemyAbilities # before.enemyAbilities
                  => /\ ~absent(node.enemyAbilities)
                     /\ Len(node.enemyAbilities.v) > 0
                     /\ after.enemyAbilities = node.enemyAbilities

\* C23: every resolved turn that updates the encounter it was resolved
\* against leaves enemyName and enemyMaxHealth unchanged, changes enemyHealth
\* only if the payload supplies one, and enemyAbilities only if the payload
\* supplies a non-empty list.
C23_SameEncounterUpdate ==
    [][/\ \A i \in 1..Len(inFlight) :
            TurnResolvedAt(i) =>
                C23_UpdateOf(inFlight[i].gameState, AppendedNode, gameState')
       /\ TurnResolvedFromCache =>
            C23_UpdateOf(gameState, AppendedNode, gameState')]_vars

-----------------------------------------------------------------------------
\* C24  Threshold mapping.
C24_Threshold(a) ==
    CASE a < 10 -> "Enemy"
      [] a >= 10 /\ a < 25 -> "Stranger"
      [] a >= 25 /\ a < 45 -> "Acquaintance"
      [] a >= 45 /\ a < 65 -> "Friend"
      [] a >= 65 /\ a < 85 -> "Confidant"
      [] a >= 85 -> "Close Friend"

C24_Clamp(x) == IF x > 100 THEN 100 ELSE IF x < 0 THEN 0 ELSE x

\* What C24 says of one set of updates applied to the roster of `before`.
C24_ComputedOf(before, node, after) ==
    LET updates == C12_UpdatesOf(node)
    IN  \A n \in 1..Len(updates) :
            LET u == updates[n]
                k == C12_TargetOf(before.relationships, u)
            IN  (/\ C12_OnlyUpdateOf(updates, n)
                 /\ u.newStatus \in {Undefined, Null}) =>
                    IF k # 0
                    THEN before.relationships[k].status \notin C12_Sticky
                            => after.relationships[k].status =
                                  C24_Threshold(C24_Clamp(before.relationships[k].affinity
                                                          + u.affinityChange))
                    ELSE \E j \in (Len(before.relationships) + 1)..Len(after.relationships) :
                            /\ after.relationships[j].id = u.npcId
                            /\ after.relationships[j].status =
                                  C24_Threshold(C24_Clamp(50 + u.affinityChange))

\* C24: a status computed from affinity (an update without newStatus of an
\* NPC whose status is not sticky, or of an NPC the roster does not hold) is
\* the threshold mapping of the clamped resulting affinity: below 10 Enemy,
\* below 25 Stranger, below 45 Acquaintance, below 65 Friend, below 85
\* Confidant, otherwise Close Friend.
C24_ThresholdMapping ==
    [][/\ \A i \in 1..Len(inFlight) :
            TurnResolvedAt(i) =>
                C24_ComputedOf(inFlight[i].gameState, AppendedNode, gameState')
       /\ TurnResolvedFromCache =>
            C24_ComputedOf(gameState, AppendedNode, gameState')
       /\ \A i \in 1..Len(inFlight), data \in OpeningThresholdData :
            StartGameResolved(i, data) =>
                C24_ComputedOf([relationships |-> <<>>], startNode(data), gameState')]_vars

\* Bob was met at 10 (Stranger) and an update of +15 has brought him to 25,
\* the lower end of Acquaintance.
C24_Witness ==
    /\ gameState # Null
    /\ Len(history) = 3
    /\ history[2].relationshipUpdates =
           Arr(<<RelUpdate("npc_b", "Bob", 0 - 40, Undefined)>>)
    /\ history[3].relationshipUpdates =
           Arr(<<RelUpdate("npc_b", "Bob", 15, Undefined)>>)
    /\ Len(gameState.relationships) = 1
    /\ gameState.relationships[1].affinity = 25
    /\ gameState.relationships[1].status = "Acquaintance"

-----------------------------------------------------------------------------
\* C25  Primary effect hint.
\* Some relationship update of the node has a positive affinityChange.
C25_PositiveSocial(node) ==
    \E n \in 1..Len(C12_UpdatesOf(node)) : C12_UpdatesOf(node)[n].affinityChange > 0

\* What C25 says of one resolved turn, `hints` being the primary hints the
\* turn emits.
C25_HintOf(node, hints) ==
    /\ Cardinality(hints) <= 1
    /\ healthChange(node) < 0 => hints = {"hit"}
    /\ healthChange(node) > 0 => hints = {"heal"}
    /\ (healthChange(node) = 0 /\ C25_PositiveSocial(node)) => hints = {"heart"}

\* C25: the primary hint of a resolved turn is hit when the health delta is
\* negative, else heal when it is positive, else heart when some
\* relationship update has a positive affinityChange; at most one is
\* emitted, whatever level-up or notification the turn also brings.
C25_PrimaryHint ==
    [][/\ \A i \in 1..Len(inFlight) :
            TurnResolvedAt(i) =>
                C25_HintOf(AppendedNode, primaryEffects(inFlight[i].gameState, AppendedNode))
       /\ TurnResolvedFromCache =>
            C25_HintOf(AppendedNode, primaryEffects(gameState, AppendedNode))]_vars

-----------------------------------------------------------------------------
\* C26  Changes made while a turn is in flight.
\* `after`, committed by a turn, keeps what the player had done to
\* `current` by then: the unlocked skills stay unlocked and paid for (a turn
\* adds at most the point of a level-up), the entries read stay read.
C26_Keeps(current, after) ==
    /\ \A k \in 1..Len(current.unlockedSkills) :
          \E m \in 1..Len(after.unlockedSkills) :
              after.unlockedSkills[m] = current.unlockedSkills[k]
    /\ after.skillPoints \in {current.skillPoints, current.skillPoints + 1}
    /\ \A j \in 1..Len(current.codex) :
          ~current.codex[j].isNew
              => (j <= Len(after.codex) /\ ~after.codex[j].isNew)

\* C26: a skill unlocked or a codex marked read between a handleChoice call
\* and its commit is still there in the committed GameState: the skill is
\* unlocked with its points deducted, the entries read have isNew = false.
C26_NoLostUpdate ==
    [][\A i \in 1..Len(inFlight) :
          (TurnResolvedAt(i) /\ Len(inFlight) = 1 /\ gameState # Null)
              => C26_Keeps(gameState, gameState')]_vars

-----------------------------------------------------------------------------
\* C27  Lethal damage.
\* What C27 says of one resolved turn: when the health the turn was
\* resolved against plus the health delta is at most 0, the committed health
\* is 0, which is the game-over condition (health <= 0), whatever xp the
\* payload awards.
C27_LethalOf(before, node, after) ==
    before.health + healthChange(node) <= 0 => after.health = 0

\* C27: a resolved turn whose health delta takes the health to 0 or below
\* commits health 0 and leaves the session in the game-over condition, for
\* every xpAward of the same payload.
C27_LethalDamage ==
    [][/\ \A i \in 1..Len(inFlight) :
            TurnResolvedAt(i) =>
                C27_LethalOf(inFlight[i].gameState, AppendedNode, gameState')
       /\ TurnResolvedFromCache =>
            C27_LethalOf(gameState, AppendedNode, gameState')]_vars

-----------------------------------------------------------------------------
\* C28  Statuses produced by the thresholds.
\* C28 as stated: no update carries a newStatus and no NPC has held one of
\* Rival, Crush, Partner, Nemesis, Complicated, Mentor, Protege, Ally, and
\* the status of every NPC is the threshold mapping of its affinity.
C28_StatusFollowsAffinity ==
    gameState # Null =>
        \A k \in 1..Len(gameState.relationships) :
            gameState.relationships[k].status =
                C24_Threshold(gameState.relationships[k].affinity)

\* The status of every NPC is the threshold mapping of its affinity, or
\* Confidant, reached earlier and kept, at an affinity of 10 or more.
C28_FollowsOrConfidant ==
    gameState # Null =>
        \A k \in 1..Len(gameState.relationships) :
            LET npc == gameState.relationships[k]
            IN  \/ npc.status = C24_Threshold(npc.affinity)
                \/ (npc.status = "Confidant" /\ npc.affinity >= 10)

\* One resolved turn: an NPC that is Confidant stays Confidant under an
\* update that leaves its affinity at 10 or more, and becomes Enemy below.
C28_ConfidantOf(before, node, after) ==
    LET updates == C12_UpdatesOf(node)
    IN  \A n \in 1..Len(updates) :
            LET u == updates[n]
                k == C12_TargetOf(before.relationships, u)
            IN  (/\ k # 0
                 /\ C12_OnlyUpdateOf(updates, n)
                 /\ before.relationships[k].status = "Confidant") =>
                    after.relationships[k].status =
                        (IF C24_Clamp(before.relationships[k].affinity + u.affinityChange) < 10
                         THEN "Enemy" ELSE "Confidant")

\* C28, amended: for an NPC that never receives a newStatus and never held
\* Rival, Crush, Partner, Nemesis, Complicated, Mentor, Protege or Ally, the
\* status is the threshold mapping of the affinity until the NPC reaches
\* Confidant; from then on it stays Confidant at every affinity of 10 or
\* more (also at 85 and above, and below 65) and becomes Enemy below 10.
C28_FollowsUntilConfidant ==
    /\ []C28_FollowsOrConfidant
    /\ [][/\ \A i \in 1..Len(inFlight) :
              TurnResolvedAt(i) =>
                  C28_ConfidantOf(inFlight[i].gameState, AppendedNode, gameState')
         /\ TurnResolvedFromCache =>
              C28_ConfidantOf(gameState, AppendedNode, gameState')]_vars

\* Bob reached Confidant at 65 and is still Confidant at 99.
C28_Witness ==
    /\ gameState # Null
    /\ Len(gameState.relationships) = 1
    /\ gameState.relationships[1].status = "Confidant"
    /\ gameState.relationships[1].affinity = 99

-----------------------------------------------------------------------------
\* C29  Skill-point conservation.
\* C29: with one action at a time, in every state of a game the skill
\* points left and the skills unlocked add up to level - 1, the points are
\* not negative and no skill is unlocked twice.
C29_SkillPointConservation ==
    gameState # Null =>
        /\ gameState.skillPoints + Len(gameState.unlockedSkills) = gameState.level - 1
        /\ gameState.skillPoints >= 0
        /\ \A i, j \in 1..Len(gameState.unlockedSkills) :
              gameState.unlockedSkills[i] = gameState.unlockedSkills[j] => i = j

\* Two level-ups, one point spent on power_strike and one left.
C29_Witness ==
    /\ gameState # Null
    /\ gameState.level = 3
    /\ gameState.skillPoints = 1
    /\ gameState.unlockedSkills = <<"power_strike">>

-----------------------------------------------------------------------------
\* C30  History and turn counter.
\* A step of a game that is not the start of one.
C30_InGame ==
    /\ gameState # Null
    /\ gameState' # Null
    /\ ~\E i \in 1..Len(inFlight), data \in OpeningData : StartGameResolved(i, data)

\* The log after the step is the log before it, with `added` behind it.
C30_LogGrowsBy(added) == history' = history \o added

\* What a step of a game does to the log: a resolved turn appends the node
\* returned for it, every other step (a failed turn, a skill unlock,
\* mark-as-read, ...) leaves the log as it is.
C30_LogStep ==
    C30_InGame =>
        /\ \A i \in 1..Len(inFlight), data \in TurnData :
              HandleChoiceResolved(i, data) => C30_LogGrowsBy(<<resultNode(data)>>)
        /\ (\A i \in 1..Len(inFlight) : ~TurnResolvedAt(i)) /\ ~TurnResolvedFromCache
              => C30_LogGrowsBy(<<>>)
        /\ Len(history') >= Len(history)
        /\ \A k \in 1..Len(history) : history'[k] = history[k]

\* C30: in every state of a game the length of the history log equals
\* turnCount; a resolved turn appends exactly the node returned for it, and
\* no other step changes the log or any earlier node.
C30_HistoryInStep ==
    /\ [](gameState # Null => Len(history) = gameState.turnCount)
    /\ [][C30_LogStep]_vars

====
